---- MODULE Spec2Model ----
(***************************************************************************)
(* Destruction order and drop check of src/main.rs.                        *)
(*                                                                         *)
(* src/main.rs is a sequence of function bodies, each a straight-line      *)
(* scope: bindings are declared, initialised with struct values, sometimes *)
(* moved or dropped explicitly, and destroyed when the scope ends.  The    *)
(* model is an interpreter of such scopes over the struct shapes the file  *)
(* declares.  It records the destructor events a run prints (trace), what  *)
(* the compiler's borrow/drop check refuses (rejects), and what each       *)
(* destructor invocation meets when it runs (flags, reads).  Every         *)
(* function of the file, and every variant its comments ask the reader to  *)
(* uncomment, is one behaviour of the model.                               *)
(***************************************************************************)
EXTENDS Integers, Sequences, FiniteSets, TLC

VARIABLES
    bind,     \* the scope's bindings in declaration order: [st, val]
    stmts,    \* the statements executed so far
    pc,       \* "body" | "exit" | "done"
    cursor,   \* scope exit: the next binding to destroy
    trace,    \* what the custom destructors print, in order
    destroyed,\* every value destroyed, in order: [val, by, how]
    rejects,  \* dependencies the borrow/drop check refuses
    flags,    \* per destructor invocation: what its reference fields meet
    reads     \* values printed by destructors that read their field

vars == <<bind, stmts, pc, cursor, trace, destroyed, rejects, flags, reads>>

\* Bounds of the model.
MaxBindings == 2
MaxStmts == 5

\* `Box::new(42)`, `B(42)`, `A(42)`: the value a referent holds.
StoredValue == 42

\* What a read of freed memory can print: "You'd probably get a random
\* number other than 42.  It is 0 or 1 on my machine."
ReadDomain == {0, 1, StoredValue}

----------------------------------------------------------------------------
(* Struct shapes.  The functions of the file reuse the names A, B, B1, ... *)
(* for different structs, so a shape is named once here:                   *)
(*   "Unit"        A(), B(), B1(), B2(), C1(), C2() with impl Drop         *)
(*   "Plain"       B(i32), A(i32), Box::new(42), String: nothing printed   *)
(*   "Pair"        drop_glue1 A(B1, B2), drop_glue3 B1(C1, C2)             *)
(*   "PairNoDrop"  drop_glue1 A(B1, B2) without its impl Drop              *)
(*   "RefPair"     drop_glue2 A<'a>(&'a B1, B2)                            *)
(*   "Outer"       drop_glue3 A(B1)                                        *)
(*   "TrivRef"     may_dangle1 A<'a>(&'a B), no impl Drop                  *)
(*   "DropRef"     may_dangle2 B<'a>(&'a A), impl Drop with an empty body  *)
(*   "Dangle"      may_dangle3/4/6/7 B with #[may_dangle], field unread    *)
(*   "DangleRead"  may_dangle5 B<T: Debug>(T), the body prints self.0      *)
(*   "MyBox"       phantom1/2 MyBox<T>, one field: a raw pointer to T      *)
(*   "MyBoxPh"     phantom3 MyBox<T>, raw pointer plus PhantomData<T>      *)
(*   "PrintOnDrop" phantom2/3 PrintOnDrop<'s>(&'s str)                     *)

\* A variant: every struct is given a destructor line.
HasDropEveryStruct(ty) == TRUE

\* Types with `impl Drop`.
HasDrop(ty) ==
    ty \in {"Unit", "Pair", "RefPair", "Outer", "DropRef", "Dangle",
            "DangleRead", "MyBox", "MyBoxPh", "PrintOnDrop"}

\* A variant: the `#[may_dangle]` attribute is not honoured.
MayDangleIgnored(ty) == FALSE

\* `unsafe impl<#[may_dangle] ...> Drop`.
MayDangle(ty) == ty \in {"Dangle", "DangleRead", "MyBox", "MyBoxPh"}

\* The destructor body prints `self.0`.
ReadsField(ty) == ty \in {"DangleRead", "PrintOnDrop"}

\* The destructor body calls `ptr::drop_in_place(self.0)`.
DropsInPlace(ty) == ty \in {"MyBox", "MyBoxPh"}

\* A variant: PhantomData is not taken for ownership.
OwnsMarkerIgnored(ty) == FALSE

\* The struct carries `PhantomData<T>`.
OwnsMarker(ty) == ty = "MyBoxPh"

\* The structs the file builds as temporaries: `A(B1(), B2());`,
\* `A(&b1, B2());`, `A(b1);`.
TempTypes == {"Pair", "PairNoDrop", "RefPair", "Outer"}

\* Structs with one reference (or generic, instantiated `&A`) field.
RefTypes == {"TrivRef", "DropRef", "Dangle", "DangleRead"}

----------------------------------------------------------------------------
(* Values: [id, ty, fs]; a field is [k, to, v]. *)

NoVal == [id |-> 0, ty |-> "none", fs |-> <<>>]

Mk(id, ty, fs) == [id |-> id, ty |-> ty, fs |-> fs]

Own(v) == [k |-> "own", to |-> 0, v |-> <<v>>]

Ref(x) == [k |-> "ref", to |-> x, v |-> <<>>]

RawEmpty == [k |-> "raw", to |-> 0, v |-> <<>>]

RawRef(x) == [k |-> "raw", to |-> x, v |-> <<>>]

RawOwn(v) == [k |-> "raw", to |-> 0, v |-> <<v>>]

\* The bindings a value's fields refer to directly.
DirectRefs(w) == {w.fs[i].to : i \in DOMAIN w.fs} \ {0}

RECURSIVE AllRefs(_)
\* Every borrow in a value's type: what a use of the value needs alive.
AllRefs(val) ==
    DirectRefs(val) \cup
    UNION {AllRefs(val.fs[i].v[1]) : i \in {j \in DOMAIN val.fs : val.fs[j].v # <<>>}}

\* A variant: a destructor is held to its borrows only if its body reads
\* them.
CheckedIfRead(ty) == HasDrop(ty) /\ ~MayDangle(ty) /\ ReadsField(ty)

\* A variant: structs without a destructor are held to their borrows too.
CheckedEveryStruct(ty) == ~MayDangle(ty)

\* A destructor the drop check holds to its borrows: an `impl Drop` without
\* `#[may_dangle]`.
Checked(ty) == HasDrop(ty) /\ ~MayDangle(ty)

RECURSIVE NeedsLive(_)
\* Drop check: the borrows that must be alive when the compiler drops val.
\* A checked destructor needs every borrow of its type; otherwise only what
\* the value owns (by field, or by PhantomData) is looked into.
NeedsLive(val) ==
    IF Checked(val.ty)
    THEN AllRefs(val)
    ELSE UNION {
        LET f == val.fs[i] IN
        IF f.v = <<>> THEN {}
        ELSE IF f.k = "own" \/ OwnsMarker(val.ty) THEN NeedsLive(f.v[1])
        ELSE {}
        : i \in DOMAIN val.fs}

\* A variant: an explicit drop is checked like the drop at scope exit.
UseNeedsAsAtExit(val) == NeedsLive(val)

\* An explicit `drop(x)` (or any move of x) is a use of x: every borrow in
\* its type must be alive, `#[may_dangle]` or not.
UseNeeds(val) == AllRefs(val)

----------------------------------------------------------------------------
(* Destruction of one value. *)

\* A variant: glue runs over the fields last to first.
FieldOrderReversed(n) == [i \in 1..n |-> n + 1 - i]

\* Drop glue runs over the fields in declared order.
FieldOrder(n) == [i \in 1..n |-> i]

\* The destructor body of val, then its glue, then the value is gone.
Assemble(body, inPlace, glue, gone) == body \o inPlace \o glue \o gone

Event(k, val) == [k |-> k, val |-> val]

RECURSIVE DestroySeq(_)
RECURSIVE GlueSeq(_, _)
\* The steps of destroying val: "body" is a custom destructor running,
\* "gone" the end of a value's destruction.
DestroySeq(val) ==
    Assemble(
        IF HasDrop(val.ty) THEN <<Event("body", val)>> ELSE <<>>,
        IF DropsInPlace(val.ty) /\ val.fs[1].v # <<>>
        THEN DestroySeq(val.fs[1].v[1]) ELSE <<>>,
        GlueSeq(val, FieldOrder(Len(val.fs))),
        <<Event("gone", val)>>)

GlueSeq(val, order) ==
    IF order = <<>> THEN <<>>
    ELSE LET f == val.fs[Head(order)] IN
         (IF f.k = "own" THEN DestroySeq(f.v[1]) ELSE <<>>)
         \o GlueSeq(val, Tail(order))

IsBody(ev) == ev.k = "body"

IsGone(ev) == ev.k = "gone"

\* The line a destructor body prints names the struct it belongs to.
Printed(evs) ==
    LET bodies == SelectSeq(evs, IsBody)
    IN  [i \in 1..Len(bodies) |-> [id |-> bodies[i].val.id, ty |-> bodies[i].val.ty]]

\* The values a destruction ends, under the binding (by) and the kind of
\* destruction (how: "exit", "drop", "temp") that started it.
Ended(evs, by, how) ==
    LET gone == SelectSeq(evs, IsGone)
    IN  [i \in 1..Len(gone) |-> [val |-> gone[i].val, by |-> by, how |-> how]]

RECURSIVE SubValues(_)
\* val and every value destroyed with it.
SubValues(val) ==
    {val} \cup
    UNION {SubValues(val.fs[i].v[1]) :
           i \in {j \in DOMAIN val.fs :
                   /\ val.fs[j].v # <<>>
                   /\ val.fs[j].k = "own" \/ DropsInPlace(val.ty)}}

Gone(b, x) == b[x].st # "live"

\* The dependencies of val the check refuses: a borrow it needs alive
\* (needed) whose referent is gone.
NewRejects(val, needed, b) ==
    UNION {{[owner |-> w.id, ref |-> x, why |-> "dangling"] :
            x \in {y \in DirectRefs(w) : y \in needed /\ Gone(b, y)}} :
           w \in SubValues(val)}

\* What each destructor invocation of this destruction meets.
NewFlags(val, needed, b) ==
    UNION {{[owner |-> w.id, ref |-> x,
             kind |-> IF x \in needed THEN "rejected-by-model"
                      ELSE "unsound-if-executed"] :
            x \in {y \in DirectRefs(w) : Gone(b, y)}} :
           w \in {u \in SubValues(val) : HasDrop(u.ty)}}

\* The destructors of this destruction that print their field.
Readers(val) == {w \in SubValues(val) : ReadsField(w.ty) /\ DirectRefs(w) # {}}

\* A variant: freed memory still holds what was stored.
ReadOutcomesStale(gone) == {StoredValue}

\* What a read of the referent yields: the stored value while the referent
\* is alive, anything once it is gone.
ReadOutcomes(gone) == IF gone THEN ReadDomain ELSE {StoredValue}

ReadChoices(val, b) ==
    ReadOutcomes(\E w \in Readers(val) : \E x \in DirectRefs(w) : Gone(b, x))

NewReads(val, b, rv) ==
    UNION {{[owner |-> w.id, ref |-> x, dangling |-> Gone(b, x),
             val |-> IF Gone(b, x) THEN rv ELSE StoredValue] :
            x \in DirectRefs(w)} : w \in Readers(val)}

----------------------------------------------------------------------------
(* The scope. *)

Init ==
    /\ bind = <<>>
    /\ stmts = <<>>
    /\ pc = "body"
    /\ cursor = 0
    /\ trace = <<>>
    /\ destroyed = <<>>
    /\ rejects = {}
    /\ flags = {}
    /\ reads = {}

\* A temporary is the last statement of its body, as in drop_glue1,
\* drop_glue2 and drop_glue3.
InBody ==
    /\ pc = "body"
    /\ Len(stmts) < MaxStmts
    /\ IF stmts = <<>> THEN TRUE ELSE stmts[Len(stmts)].op # "temp"

\* Values are numbered by the statement that builds them.
FreshId == 10 * (Len(stmts) + 1)

Stmt(op, b, val) == [op |-> op, b |-> b, val |-> val]

Live(ty) == {x \in DOMAIN bind : bind[x].st = "live" /\ bind[x].val.ty = ty}

Expr(val, moved) == [val |-> val, moved |-> moved]

\* The struct expressions of the file, over the bindings alive now.
Exprs ==
    LET id == FreshId
        unit(k) == Mk(id + k, "Unit", <<>>)
    IN  {Expr(unit(0), {}),
         Expr(Mk(id, "Plain", <<>>), {}),
         Expr(Mk(id, "Pair", <<Own(unit(1)), Own(unit(2))>>), {}),
         Expr(Mk(id, "PairNoDrop", <<Own(unit(1)), Own(unit(2))>>), {}),
         Expr(Mk(id, "MyBox", <<RawEmpty>>), {}),
         Expr(Mk(id, "MyBoxPh", <<RawEmpty>>), {})}
        \cup {Expr(Mk(id, "RefPair", <<Ref(x), Own(unit(2))>>), {}) :
               x \in Live("Unit")}
        \cup {Expr(Mk(id, ty, <<Ref(x)>>), {}) :
               ty \in RefTypes, x \in Live("Plain")}
        \cup {Expr(Mk(id, "Outer", <<Own(bind[x].val)>>), {x}) :
               x \in Live("Pair")}
        \cup {Expr(Mk(id, "Dangle", <<Own(bind[x].val)>>), {x}) :
               x \in Live("Unit")}

\* What `move_in` can place into the slot of a MyBox.
SlotContents ==
    {RawRef(x) : x \in Live("Plain")}
    \cup {RawOwn(Mk(FreshId, "PrintOnDrop", <<Ref(x)>>)) : x \in Live("Plain")}

\* A variant: a move leaves the source binding as it was.
MarkMovedForgotten(b, xs) == b

\* A binding whose value was moved out no longer owns anything.
MarkMoved(b, xs) ==
    [i \in DOMAIN b |->
        IF i \in xs THEN [st |-> "moved", val |-> NoVal] ELSE b[i]]

\* A variant: scope exit destroys the bindings in declaration order.
ExitTargetForward(k, n) == k

\* Scope exit destroys the bindings in reverse declaration order: the k-th
\* of n to go is the one declared at position n + 1 - k.
ExitTarget(k, n) == n + 1 - k

\* The destruction of val, run with the bindings b, needing `needed` alive.
Destroy(val, by, how, needed, b, rv) ==
    /\ trace' = trace \o Printed(DestroySeq(val))
    /\ destroyed' = destroyed \o Ended(DestroySeq(val), by, how)
    /\ rejects' = rejects \cup NewRejects(val, needed, b)
    /\ flags' = flags \cup NewFlags(val, needed, b)
    /\ reads' = reads \cup NewReads(val, b, rv)

\* `let a;`
DeclareUninit ==
    /\ InBody
    /\ Len(bind) < MaxBindings
    /\ bind' = Append(bind, [st |-> "uninit", val |-> NoVal])
    /\ stmts' = Append(stmts, Stmt("let", Len(bind) + 1, NoVal))
    /\ UNCHANGED <<pc, cursor, trace, destroyed, rejects, flags, reads>>

\* `let b = B();`
LetInit ==
    /\ InBody
    /\ Len(bind) < MaxBindings
    /\ \E e \in Exprs :
        /\ bind' = Append(MarkMoved(bind, e.moved), [st |-> "live", val |-> e.val])
        /\ stmts' = Append(stmts, Stmt("letinit", Len(bind) + 1, e.val))
    /\ UNCHANGED <<pc, cursor, trace, destroyed, rejects, flags, reads>>

\* `a = A();` for a binding declared without a value.
Assign ==
    /\ InBody
    /\ \E i \in DOMAIN bind, e \in Exprs :
        /\ bind[i].st = "uninit"
        /\ bind' = [MarkMoved(bind, e.moved) EXCEPT ![i] = [st |-> "live", val |-> e.val]]
        /\ stmts' = Append(stmts, Stmt("assign", i, e.val))
    /\ UNCHANGED <<pc, cursor, trace, destroyed, rejects, flags, reads>>

\* `A(B1(), B2());`: a temporary, destroyed at the end of its statement.
TempStmt ==
    /\ InBody
    /\ \E e \in Exprs :
        /\ e.val.ty \in TempTypes
        /\ bind' = MarkMoved(bind, e.moved)
        /\ stmts' = Append(stmts, Stmt("temp", 0, e.val))
        /\ \E rv \in ReadChoices(e.val, bind') :
            Destroy(e.val, 0, "temp", NeedsLive(e.val), bind', rv)
    /\ UNCHANGED <<pc, cursor>>

\* `a.move_in(&s);`, `a.move_in(PrintOnDrop(s.as_str()));`
MoveIn ==
    /\ InBody
    /\ \E i \in DOMAIN bind, c \in SlotContents :
        /\ bind[i].st = "live"
        /\ DropsInPlace(bind[i].val.ty)
        /\ bind[i].val.fs[1] = RawEmpty
        /\ bind' = [bind EXCEPT ![i].val.fs[1] = c]
        /\ stmts' = Append(stmts, Stmt("move_in", i, IF c.v = <<>> THEN NoVal ELSE c.v[1]))
    /\ UNCHANGED <<pc, cursor, trace, destroyed, rejects, flags, reads>>

\* `drop(a);`
ExplicitDrop ==
    /\ InBody
    /\ \E i \in DOMAIN bind :
        /\ stmts' = Append(stmts, Stmt("drop", i, bind[i].val))
        /\ \/ /\ bind[i].st = "live"
              /\ bind' = [bind EXCEPT ![i] = [st |-> "taken", val |-> NoVal]]
              /\ \E rv \in ReadChoices(bind[i].val, bind) :
                  Destroy(bind[i].val, i, "drop", UseNeeds(bind[i].val), bind, rv)
           \/ /\ bind[i].st = "moved"
              /\ rejects' = rejects \cup {[owner |-> 0, ref |-> i, why |-> "moved"]}
              /\ UNCHANGED <<bind, trace, destroyed, flags, reads>>
    /\ UNCHANGED <<pc, cursor>>

\* A slot never filled leaves T undetermined, and a binding never assigned
\* has no type: such a body is not a program.
Complete ==
    \A i \in DOMAIN bind :
        /\ bind[i].st # "uninit"
        /\ bind[i].st = "live" /\ DropsInPlace(bind[i].val.ty)
            => bind[i].val.fs[1] # RawEmpty

\* The closing brace.
EndBody ==
    /\ pc = "body"
    /\ Complete
    /\ pc' = IF bind = <<>> THEN "done" ELSE "exit"
    /\ cursor' = IF bind = <<>> THEN 0 ELSE 1
    /\ UNCHANGED <<bind, stmts, trace, destroyed, rejects, flags, reads>>

\* Scope exit, one binding at a time; rv is what a destructor that reads
\* its field gets to see.
ExitDropWith(rv) ==
    /\ pc = "exit"
    /\ LET i == ExitTarget(cursor, Len(bind)) IN
        \/ /\ bind[i].st = "live"
           /\ bind' = [bind EXCEPT ![i].st = "dropped"]
           /\ rv \in ReadChoices(bind[i].val, bind)
           /\ Destroy(bind[i].val, i, "exit", NeedsLive(bind[i].val), bind, rv)
        \/ /\ bind[i].st # "live"
           /\ rv = StoredValue
           /\ UNCHANGED <<bind, trace, destroyed, rejects, flags, reads>>
    /\ cursor' = cursor + 1
    /\ pc' = IF cursor = Len(bind) THEN "done" ELSE "exit"
    /\ UNCHANGED stmts

ExitDrop == \E rv \in ReadDomain : ExitDropWith(rv)

Next ==
    \/ DeclareUninit
    \/ LetInit
    \/ Assign
    \/ TempStmt
    \/ MoveIn
    \/ ExplicitDrop
    \/ EndBody
    \/ ExitDrop

Spec == Init /\ [][Next]_vars

----------------------------------------------------------------------------
(* Vocabulary of the properties. *)

\* The structs declared with an `impl Drop`, and those declared without.
CustomTypes ==
    {"Unit", "Pair", "RefPair", "Outer", "DropRef", "Dangle", "DangleRead",
     "MyBox", "MyBoxPh", "PrintOnDrop"}

NoDropTypes == {"Plain", "PairNoDrop", "TrivRef"}

Ops == [n \in DOMAIN stmts |-> stmts[n].op]

TraceIds == [t \in DOMAIN trace |-> trace[t].id]

TraceTypes == [t \in DOMAIN trace |-> trace[t].ty]

DestroyedIds == {destroyed[p].val.id : p \in DOMAIN destroyed}

\* The entry of `destroyed` that ended the value a trace line belongs to.
EntryOf(id) == CHOOSE p \in DOMAIN destroyed : destroyed[p].val.id = id

TracePos(id) == CHOOSE t \in DOMAIN trace : trace[t].id = id

RECURSIVE AllIds(_)
AllIds(val) ==
    IF val = NoVal THEN {}
    ELSE {val.id} \cup
         UNION {AllIds(val.fs[i].v[1]) :
                i \in {j \in DOMAIN val.fs : val.fs[j].v # <<>>}}

RECURSIVE ExpectedIds(_)
RECURSIVE ExpectedFields(_, _)
\* The order the claims state: the custom destructor's own line, then each
\* owned field in declared order, each completely before the next.
ExpectedIds(val) ==
    (IF val.ty \in CustomTypes THEN <<val.id>> ELSE <<>>)
    \o ExpectedFields(val, 1)

ExpectedFields(val, i) ==
    IF i > Len(val.fs) THEN <<>>
    ELSE (IF val.fs[i].k = "own" THEN ExpectedIds(val.fs[i].v[1]) ELSE <<>>)
         \o ExpectedFields(val, i + 1)

\* Binding x's value was ended before entry p of `destroyed`.
GoneBefore(x, p) == \E q \in 1..(p - 1) : destroyed[q].by = x

Rejected(id, x) == \E r \in rejects : r.owner = id /\ r.ref = x

Flagged(id, x, kind) == [owner |-> id, ref |-> x, kind |-> kind] \in flags

----------------------------------------------------------------------------
(* C1: at scope exit the bindings are destroyed in reverse declaration     *)
(* order, whatever the order they were initialised in: of two bindings     *)
(* destroyed at scope exit, every value and every destructor line of the   *)
(* one declared later comes before those of the one declared earlier.      *)
C1_ReverseDeclarationOrder ==
    /\ \A p, q \in DOMAIN destroyed :
        /\ destroyed[p].how = "exit"
        /\ destroyed[q].how = "exit"
        /\ destroyed[p].by < destroyed[q].by
        => q < p
    /\ LET line == [t \in DOMAIN trace |-> destroyed[EntryOf(trace[t].id)]] IN
        \A t, u \in DOMAIN trace :
            /\ line[t].how = "exit"
            /\ line[u].how = "exit"
            /\ line[t].by < line[u].by
            => u < t
    /\ pc = "done" =>
        \A i \in DOMAIN bind :
            bind[i].st = "dropped"
            => \E p \in DOMAIN destroyed :
                destroyed[p].by = i /\ destroyed[p].how = "exit"

\* drop_order: `let a; let b = B(); a = A();` prints B's line, then A's.
C1_Witness ==
    /\ pc = "done"
    /\ Ops = <<"let", "letinit", "assign">>
    /\ stmts[3].b = 1
    /\ stmts[2].val.ty = "Unit" /\ stmts[3].val.ty = "Unit"
    /\ TraceIds = <<stmts[2].val.id, stmts[3].val.id>>

(* C2: a custom destructor's line comes first, then the complete           *)
(* destruction of its first owned field, then of the next, at every        *)
(* depth: the lines printed from a value's destructor on are its own, then *)
(* those of its owned fields in declared order, each field whole.          *)
C2_BodyThenFieldsInOrder ==
    \A p \in DOMAIN destroyed :
        LET w == destroyed[p].val IN
        w.ty \in CustomTypes =>
            /\ w.id \in {trace[t].id : t \in DOMAIN trace}
            /\ LET t == TracePos(w.id)
                   e == ExpectedIds(w)
               IN  /\ t + Len(e) - 1 <= Len(trace)
                   /\ SubSeq(TraceIds, t, t + Len(e) - 1) = e

\* drop_glue3: `let b1 = B1(C1(), C2()); A(b1);` prints A, B1, C1, C2.
C2_Witness ==
    /\ Ops = <<"letinit", "temp">>
    /\ TraceTypes = <<"Outer", "Pair", "Unit", "Unit">>
    /\ TraceIds = <<20, 10, 11, 12>>

(* C3: every value is destroyed exactly once and only through its owner:   *)
(* no value is ended twice, a value whose owning binding is still alive    *)
(* has not been ended (a borrower's glue never destroys its referent), a   *)
(* value moved into a container is ended with the container and not again  *)
(* at the end of the scope, and when the scope is done every value built   *)
(* has been ended.                                                         *)
C3_DestroyedOnceByOwner ==
    /\ \A p, q \in DOMAIN destroyed :
        destroyed[p].val.id = destroyed[q].val.id => p = q
    /\ \A x \in DOMAIN bind :
        bind[x].st = "live" => AllIds(bind[x].val) \cap DestroyedIds = {}
    /\ \A n \in DOMAIN stmts :
        /\ stmts[n].op \in {"letinit", "assign"}
        /\ bind[stmts[n].b].st = "moved"
        => \A p \in DOMAIN destroyed :
            destroyed[p].val.id = stmts[n].val.id
            => destroyed[p].how # "exit" \/ destroyed[p].by # stmts[n].b
    /\ pc = "done" =>
        \A n \in DOMAIN stmts :
            stmts[n].op \in {"letinit", "assign", "temp", "move_in"}
            => AllIds(stmts[n].val) \subseteq DestroyedIds

\* drop_glue3 run to the end: b1 went with the temporary A, once.
C3_Witness ==
    /\ pc = "done"
    /\ Ops = <<"letinit", "temp">>
    /\ stmts[2].val.ty = "Outer"
    /\ bind[1].st = "moved"
    /\ Len(destroyed) = 4
    /\ \A p \in DOMAIN destroyed : destroyed[p].how = "temp"

(* C9: a value without a custom destructor prints no line of its own, but  *)
(* its owned fields are still destroyed, in declared order; a value with   *)
(* no custom destructor and no owned field adds nothing to the trace.      *)
C9_GlueOnlyValues ==
    /\ \A p \in DOMAIN destroyed :
        LET w == destroyed[p].val IN
        w.ty \in NoDropTypes =>
            /\ w.id \notin {trace[t].id : t \in DOMAIN trace}
            /\ w.ty = "PairNoDrop" =>
                \E t \in DOMAIN trace :
                    /\ t < Len(trace)
                    /\ trace[t].id = w.fs[1].v[1].id
                    /\ trace[t + 1].id = w.fs[2].v[1].id
    /\ Len(trace) =
        Cardinality({p \in DOMAIN destroyed : destroyed[p].val.ty \in CustomTypes})

\* `A(B1(), B2())` without `impl Drop for A`, after a `B(42)` went.
C9_Witness ==
    /\ pc = "done"
    /\ \E p, q \in DOMAIN destroyed :
        /\ destroyed[p].val.ty = "Plain"
        /\ destroyed[q].val.ty = "PairNoDrop"
        /\ p < q
    /\ TraceTypes = <<"Unit", "Unit">>

----------------------------------------------------------------------------
(* The drop check. *)

\* Structs whose `impl Drop` carries no `#[may_dangle]` and that hold a
\* reference, and structs whose `impl Drop` carries one.
CheckedRefTypes == {"RefPair", "DropRef", "PrintOnDrop"}

OptOutTypes == {"Dangle", "DangleRead", "MyBox", "MyBoxPh"}

\* w sits in the raw slot of a MyBox without PhantomData, behind the
\* container's `#[may_dangle] T`.
InUnmarkedSlot(w) ==
    \E q \in DOMAIN destroyed :
        /\ destroyed[q].val.ty = "MyBox"
        /\ destroyed[q].val.fs[1].v = <<w>>

C6_OptOutAcceptedAndFlagged ==
    /\ \A p \in DOMAIN destroyed :
        LET w == destroyed[p].val IN
        w.ty \in {"Dangle", "DangleRead"} /\ destroyed[p].how = "exit" =>
            \A x \in DirectRefs(w) :
                (\E q \in 1..(p - 1) :
                    destroyed[q].by = x /\ destroyed[q].how = "exit")
                => /\ ~Rejected(w.id, x)
                   /\ Flagged(w.id, x, "unsound-if-executed")
    /\ \A f \in flags :
        /\ f.kind \in {"rejected-by-model", "unsound-if-executed"}
        /\ f.kind = "rejected-by-model" <=> Rejected(f.owner, f.ref)
        /\ f.kind = "unsound-if-executed" =>
            ~Flagged(f.owner, f.ref, "rejected-by-model")

\* may_dangle3: `let mut b; let a = A(42); b = B(&a);` with
\* `unsafe impl<#[may_dangle] 'a> Drop for B<'a>` and an empty body.
C6_Witness ==
    /\ pc = "done"
    /\ Ops = <<"let", "letinit", "assign">>
    /\ stmts[3].val = Mk(30, "Dangle", <<Ref(2)>>)
    /\ TraceTypes = <<"Dangle">>
    /\ rejects = {}
    /\ flags = {[owner |-> 30, ref |-> 2, kind |-> "unsound-if-executed"]}
    /\ reads = {}

C8_MarkerRestoresCheck ==
    \A p \in DOMAIN destroyed :
        LET w == destroyed[p].val IN
        /\ w.ty \in {"MyBox", "MyBoxPh"}
        /\ destroyed[p].how = "exit"
        /\ w.fs[1].v # <<>>
        => LET c == w.fs[1].v[1] IN
           \A x \in DirectRefs(c) :
               GoneBefore(x, p) =>
                   /\ w.ty = "MyBox" =>
                       /\ ~Rejected(c.id, x)
                       /\ ~Rejected(w.id, x)
                       /\ Flagged(c.id, x, "unsound-if-executed")
                   /\ w.ty = "MyBoxPh" => Rejected(c.id, x)

\* phantom2: `let mut a = MyBox::new(); let mut s = ...;
\* a.move_in(PrintOnDrop(s.as_str())); drop(s);`
C8_Witness ==
    /\ pc = "done"
    /\ Ops = <<"letinit", "letinit", "move_in", "drop">>
    /\ stmts[1].val.ty = "MyBox"
    /\ stmts[3].val = Mk(30, "PrintOnDrop", <<Ref(2)>>)
    /\ stmts[4].b = 2
    /\ TraceTypes = <<"MyBox", "PrintOnDrop">>
    /\ rejects = {}
    /\ Flagged(30, 2, "unsound-if-executed")

(* C10: when the next destructor to run at scope exit reads a field whose  *)
(* referent is gone, every value of the domain is a possible result of the *)
(* read; whatever was read, the scope exit goes on to its end.             *)
C10_DanglingReadUnspecified ==
    /\ pc = "exit" =>
        LET i == ExitTarget(cursor, Len(bind)) IN
        /\ bind[i].st = "live"
        /\ \E w \in SubValues(bind[i].val) :
            /\ w.ty \in {"DangleRead", "PrintOnDrop"}
            /\ \E x \in DirectRefs(w) : bind[x].st # "live"
        => \A v \in ReadDomain : ENABLED ExitDropWith(v)
    /\ \A r \in reads : r.val \in ReadDomain
    /\ pc = "exit" => cursor \in 1..Len(bind)

\* may_dangle5: `let mut b; let a = Box::new(42); b = B(&a);` where B's
\* destructor prints `self.0`, and prints something other than 42.
C10_Witness ==
    /\ pc = "done"
    /\ Ops = <<"let", "letinit", "assign">>
    /\ stmts[3].val = Mk(30, "DangleRead", <<Ref(2)>>)
    /\ rejects = {}
    /\ reads = {[owner |-> 30, ref |-> 2, dangling |-> TRUE, val |-> 0]}

====
